---------------------------- MODULE Spec2Model ----------------------------
(***************************************************************************)
(* A model of the ns-3 C ABI shim (adapter/native/src/ns3shim.cpp).        *)
(*                                                                         *)
(* The shim keeps one context per simulation (struct ns3_sim_t): four      *)
(* registries from 64-bit IDs to simulator entities, four ID counters, a   *)
(* running flag and a last-error string.  Below the shim sits the ns-3     *)
(* simulator, which is process-wide: one clock, one event queue, one stop  *)
(* flag, whatever simulation context an entry point was called with.       *)
(*                                                                         *)
(* The foreign caller is the environment.  It calls entry points from the  *)
(* top level or from inside a scheduled callback, which runs on the thread *)
(* that called sim_run, inside Simulator::Run().                           *)
(***************************************************************************)
EXTENDS Naturals, Integers, Sequences, FiniteSets, TLC

(***************************************************************************)
(* Bounds of the model.                                                    *)
(***************************************************************************)
\* simulation contexts that can be allocated at the same time
MaxSims == 2
\* largest ID a registry issues before the creating operations are disabled
MaxId == 2
\* longest handle array (and largest count) passed to an operation
MaxCount == 1
\* entry-point calls in one behaviour of the registry specification
MaxRegCalls == 4
\* entry-point calls in one behaviour of the event-loop specification
MaxLoopCalls == 5
\* entry-point calls in one behaviour of the error-slot specification
MaxErrCalls == 3
\* size of the buffer a caller passes to ns3_last_error
BufSize == 64
\* latest simulation time an event is scheduled at
MaxTime == 2
\* sim_schedule calls in one behaviour
MaxEvents == 2
\* sim_run calls nested in one another
MaxDepth == 2
\* flows in the map a flow monitor returns
MaxFlows == 2
\* entry-point calls in one behaviour of the address specification
MaxAddrCalls == 5
\* entry-point calls in one behaviour of the packet-trace specification
MaxTraceCalls == 5
\* packet events in one behaviour
MaxPackets == 2
\* trace sinks connected in one behaviour
MaxSinks == 2
MaxWrites == 2
MaxReads == 2

Sims == 1 .. MaxSims
\* the null simulation pointer
NullSim == 0
\* handle bit patterns a caller presents: 0 is the null handle
Handles == 0 .. MaxId
HandleArrays == UNION {[1 .. n -> Handles] : n \in 0 .. MaxCount}

NS3_OK == "NS3_OK"
NS3_ERR == "NS3_ERR"
\* not a status: an exception left the entry point and reached the caller
THROWN == "THROWN"

\* what the simulator can do inside a try block: return, throw a
\* std::exception, or throw something that is not a std::exception
Throws == {"none", "std", "other"}
\* e.what() of a std::exception thrown below the boundary
What == "boom"

Kinds == {"node", "device", "app", "flowmon"}
RegOf == [node |-> "nodes", device |-> "devices", app |-> "apps", flowmon |-> "flowMons"]
CtrOf == [node |-> "nextNodeId", device |-> "nextDeviceId", app |-> "nextAppId",
          flowmon |-> "nextFlowMonId"]
InvalidMsg == [node |-> "Invalid node handle", device |-> "Invalid device handle",
               app |-> "Invalid application handle",
               flowmon |-> "Invalid flow monitor handle"]

VARIABLES
    live,       \* the contexts allocated by sim_create and not yet deleted
    ctx,        \* ctx[s]: the fields of context s (struct ns3_sim_t)
    now,        \* Simulator::Now()
    events,     \* the simulator's event queue, in dispatch order
    stopped,    \* the simulator's stop flag, read by the loop of Simulator::Run
    stack,      \* the call stack of the thread: sim_run frames and callbacks
    fault,      \* "none", or the undefined behaviour that has happened
    ret,        \* what the last entry-point call returned to its caller
    issued,     \* issued[s][k]: the handles of kind k returned by s, in order
    sched,      \* sched[e]: the sim_schedule call e (its simulation, its time)
    fired,      \* fired[e]: how often the callback of call e was invoked
    stopReqs,   \* the sim_stop calls made since the loop last ended
    destroyedInRun, \* the contexts deleted while their own sim_run was active
    traces,     \* the trace sinks connected, oldest first (one for each side of
                \* each leaked PacketTraceContext)
    delivered,  \* the packet callbacks invoked, oldest first
    packets,    \* the packet events the simulator has had on its devices
    config,     \* the Config::Set calls made, oldest first
    allocated,  \* the addresses the simulator's address generator has handed out
    assigned,   \* the addresses ipv4_assign gave to devices, oldest first
    collected,  \* what the last flowmon_collect read and what it wrote out
    mutex,      \* the owner of errorMutex of the context the two threads share
    pc,         \* pc[t]: where thread t stands in SetError or ns3_last_error
    tmp,        \* tmp[t]: the thread's local string (msg to store, copy being made)
    written,    \* the messages SetError was called with, after the initial one
    copied,     \* what the ns3_last_error calls of the reader put in the buffer
    calls       \* entry-point calls the caller still makes

vars == <<live, ctx, now, events, stopped, stack, fault, ret, issued,
          sched, fired, stopReqs, destroyedInRun, traces, delivered, packets, config,
          allocated, assigned, collected, mutex, pc, tmp, written, copied, calls>>

simVars == <<now, events, stopped>>
loopVars == <<stack, fault, sched, fired, stopReqs, destroyedInRun>>
netVars == <<allocated, assigned, collected>>
pktVars == <<delivered, packets>>
thrVars == <<mutex, pc, tmp, written, copied>>
auxVars == <<traces, config, netVars, pktVars, thrVars>>

(***************************************************************************)
(* struct ns3_sim_t and its helpers.                                       *)
(***************************************************************************)
EmptyMap == <<>>

\* a context whose ID counters start at 0
NewSimZeroIds ==
    [nodes |-> EmptyMap, devices |-> EmptyMap, apps |-> EmptyMap, flowMons |-> EmptyMap,
     ipv4Helper |-> [network |-> "", mask |-> "", address |-> 0],
     isRunning |-> FALSE, lastError |-> "",
     nextNodeId |-> 0, nextDeviceId |-> 0, nextAppId |-> 0, nextFlowMonId |-> 0]
\* a context whose error slot starts out holding a message
NewSimStale ==
    [nodes |-> EmptyMap, devices |-> EmptyMap, apps |-> EmptyMap, flowMons |-> EmptyMap,
     ipv4Helper |-> [network |-> "", mask |-> "", address |-> 0],
     isRunning |-> FALSE, lastError |-> "No error",
     nextNodeId |-> 1, nextDeviceId |-> 1, nextAppId |-> 1, nextFlowMonId |-> 1]
\* a context as its member initialisers leave it
NewSim ==
    [nodes |-> EmptyMap, devices |-> EmptyMap, apps |-> EmptyMap, flowMons |-> EmptyMap,
     ipv4Helper |-> [network |-> "", mask |-> "", address |-> 0],
     isRunning |-> FALSE, lastError |-> "",
     nextNodeId |-> 1, nextDeviceId |-> 1, nextAppId |-> 1, nextFlowMonId |-> 1]

\* a map that keeps the new entry only (what "sim->xs = {{id, e}}" would do)
PutAlone(m, id, e) == [i \in {id} |-> e]
\* std::map::operator[] followed by assignment
Put(m, id, e) == [i \in DOMAIN m \cup {id} |-> IF i = id THEN e ELSE m[i]]

Range(m) == {m[i] : i \in DOMAIN m}

\* an error path that also uses up a node identifier
SetErrorBurnsId(c, msg) == [c EXCEPT !.lastError = msg, !.nextNodeId = @ + 1]
\* sim->SetError(msg): lastError = msg, under the mutex of the slot
SetError(c, msg) == [c EXCEPT !.lastError = msg]

GetError(c) == c.lastError

HandleToId(h) == h

IdToHandle(id) == id

ValidateSim(s) == s # NullSim

\* a simulator object: its identity and its dynamic type
Ent(n, type) == [n |-> n, type |-> type]

\* the null Ptr<T>
NullEnt == Ent(0, "null")

\* GetNode / GetDevice / GetApp / GetFlowMon: the entity found, or the null
\* Ptr for a null handle and for a handle the registry does not hold
Lookup(c, k, h) ==
    IF h = 0 THEN NullEnt
    ELSE IF HandleToId(h) \in DOMAIN c[RegOf[k]] THEN c[RegOf[k]][HandleToId(h)]
    ELSE NullEnt

\* a lookup that never writes the error slot
LookupCtxQuiet(c, k, h) == c
\* a lookup that reports the null handle like any other handle it cannot find
LookupCtxLoud(c, k, h) ==
    IF HandleToId(h) \notin DOMAIN c[RegOf[k]] THEN SetError(c, InvalidMsg[k]) ELSE c
\* the context after that lookup: a miss writes the error slot, a null handle
\* and a hit do not
LookupCtx(c, k, h) ==
    IF h # 0 /\ HandleToId(h) \notin DOMAIN c[RegOf[k]]
    THEN SetError(c, InvalidMsg[k])
    ELSE c

\* the loop "for i < count: p = Get(sim, arr[i]); if (!p) return NS3_ERR":
\* the first index whose lookup fails, or 0 when all of them hit
FirstBad(c, k, arr) ==
    LET bad == {i \in 1 .. Len(arr) : Lookup(c, k, arr[i]) = NullEnt}
    IN  IF bad = {} THEN 0 ELSE CHOOSE i \in bad : \A j \in bad : i <= j

\* a counter that is read but not advanced (what "sim->nextXId" would do)
PostIncrementStuck(n) == n
\* a counter that skips an ID each time it issues one
PostIncrementTwice(n) == n + 2
\* sim->nextXId++ : the counter after issuing one ID
PostIncrement(n) == n + 1

\* "id = sim->nextXId++; sim->xs[id] = e; out[i] = IdToHandle(id)" for each
\* entity of ents in turn: the context after it
RECURSIVE RegisterAll(_, _, _)
RegisterAll(c, k, ents) ==
    IF ents = <<>> THEN c
    ELSE LET id == c[CtrOf[k]]
             c1 == [c EXCEPT ![CtrOf[k]] = PostIncrement(id),
                             ![RegOf[k]] = Put(@, id, Head(ents))]
         IN  RegisterAll(c1, k, Tail(ents))

\* ... and the handles written to the output array, in order
RECURSIVE OutHandles(_, _, _)
OutHandles(c, k, ents) ==
    IF ents = <<>> THEN <<>>
    ELSE LET id == c[CtrOf[k]]
             c1 == [c EXCEPT ![CtrOf[k]] = PostIncrement(id)]
         IN  <<[id |-> IdToHandle(id), ent |-> Head(ents)]>> \o OutHandles(c1, k, Tail(ents))

(***************************************************************************)
(* The simulator's objects.  An object is named by a number; a helper      *)
(* (NodeContainer::Create, XHelper::Install) returns objects that no       *)
(* registry of a live context holds.                                       *)
(***************************************************************************)
UsedEnts ==
    UNION {{e.n : e \in Range(ctx[s][RegOf[k]])} : s \in live, k \in Kinds}

RECURSIVE FreshFrom(_, _)
FreshFrom(used, types) ==
    IF types = <<>> THEN <<>>
    ELSE LET n == CHOOSE x \in 1 .. (Cardinality(used) + 1) : x \notin used
         IN  <<Ent(n, Head(types))>> \o FreshFrom(used \cup {n}, Tail(types))

\* a helper that hands out one and the same object again and again
FreshShared(types) == [i \in 1 .. Len(types) |-> Ent(1, types[i])]
\* one new object of each of the given types
Fresh(types) == FreshFrom(UsedEnts, types)

Times(n, type) == [i \in 1 .. n |-> type]


(***************************************************************************)
(* Calls and returns.                                                      *)
(***************************************************************************)
NoPrev == [op |-> "", sim |-> NullSim, status |-> "", cause |-> ""]

NoRet == [op |-> "", sim |-> NullSim, status |-> "", cause |-> "", out |-> "",
          val |-> 0, prev |-> NoPrev]

Top == stack[Len(stack)]

\* the caller is running: at the top level, or inside a callback
CanCall ==
    /\ calls > 0
    /\ fault # "crash"
    /\ IF stack = <<>> THEN TRUE ELSE Top.kind = "cb"

Ret(op, s, status, cause) ==
    [op |-> op, sim |-> s, status |-> status, cause |-> cause, out |-> "", val |-> 0,
     prev |-> NoPrev]

\* the entry point op, called with simulation s, returns status; cause names
\* the branch of the code that returned
Return(op, s, status, cause) ==
    /\ ret' = Ret(op, s, status, cause)
    /\ calls' = calls - 1

\* a handler that returns NS3_ERR without writing the error slot
CatchSilent(op, s, exc) ==
    /\ exc # "none"
    /\ UNCHANGED ctx
    /\ Return(op, s, IF exc = "std" THEN NS3_ERR ELSE THROWN, "exception")
\* catch (const std::exception& e) { sim->SetError("<op> failed: " + e.what());
\* return NS3_ERR; }  -- anything else thrown passes through the handler
Catch(op, s, exc) ==
    /\ exc # "none"
    /\ IF exc = "std"
       THEN /\ ctx' = [ctx EXCEPT ![s] = SetError(@, op \o " failed: " \o What)]
            /\ Return(op, s, NS3_ERR, "exception")
       ELSE /\ UNCHANGED ctx
            /\ Return(op, s, THROWN, "exception")

(***************************************************************************)
(* The shape shared by the topology and application entry points:          *)
(*   if (!ValidateSim(sim) || <a required argument is null or zero>)       *)
(*       return NS3_ERR;                                                   *)
(*   try { resolve the input handles, in order, returning NS3_ERR at the   *)
(*         first one that is not found;                                    *)
(*         call the simulator helper (which returns or throws);            *)
(*         register each entity it made and write its handle out;          *)
(*         return NS3_OK; }                                                *)
(*   catch (const std::exception& e) { SetError; return NS3_ERR; }         *)
(***************************************************************************)
Facade(op, s, badArg, inKind, inArr, outKind, outTypes) ==
    /\ s \in live \cup {NullSim}
    /\ IF ~ValidateSim(s) \/ badArg
       THEN /\ Return(op, s, NS3_ERR, "arg")
            /\ UNCHANGED <<ctx, issued>>
       ELSE LET c == ctx[s]
                bad == FirstBad(c, inKind, inArr)
            IN  IF bad # 0
                THEN /\ ctx' = [ctx EXCEPT ![s] = LookupCtx(c, inKind, inArr[bad])]
                     /\ Return(op, s, NS3_ERR,
                               IF inArr[bad] = 0 THEN "null_handle" ELSE "miss")
                     /\ UNCHANGED issued
                ELSE \E exc \in Throws :
                     IF exc # "none"
                     THEN /\ Catch(op, s, exc)
                          /\ UNCHANGED issued
                     ELSE /\ c[CtrOf[outKind]] + Len(outTypes) <= MaxId + 1
                          /\ LET ents == Fresh(outTypes)
                             IN  /\ ctx' = [ctx EXCEPT ![s] = RegisterAll(c, outKind, ents)]
                                 /\ issued' = [issued EXCEPT ![s][outKind] =
                                                   @ \o OutHandles(c, outKind, ents)]
                          /\ Return(op, s, NS3_OK, "ok")
    /\ UNCHANGED <<live, simVars, loopVars, auxVars>>

(***************************************************************************)
(* Nodes, devices, applications, flow monitors.                            *)
(***************************************************************************)
nodes_create(s, count, outNull) ==
    /\ CanCall
    /\ Facade("nodes_create", s, outNull \/ count = 0, "node", <<>>,
              "node", Times(count, "Node"))

internet_install(s, nodes, nodesNull) ==
    /\ CanCall
    /\ Facade("internet_install", s, nodesNull \/ Len(nodes) = 0, "node", nodes,
              "node", <<>>)

p2p_install(s, a, b, argNull) ==
    /\ CanCall
    /\ Facade("p2p_install", s, a = 0 \/ b = 0 \/ argNull, "node", <<a, b>>,
              "device", Times(2, "PointToPointNetDevice"))

csma_install(s, nodes, argNull) ==
    /\ CanCall
    /\ Facade("csma_install", s, argNull \/ Len(nodes) = 0, "node", nodes,
              "device", Times(Len(nodes), "CsmaNetDevice"))

wifi_install_sta_ap(s, stas, ap, argNull) ==
    /\ CanCall
    /\ Facade("wifi_install_sta_ap", s, argNull \/ Len(stas) = 0 \/ ap = 0, "node",
              stas \o <<ap>>, "device", Times(Len(stas) + 1, "WifiNetDevice"))

mobility_set_constant_position(s, node) ==
    /\ CanCall
    /\ Facade("mobility_set_constant_position", s, node = 0, "node", <<node>>,
              "node", <<>>)

\* the network bases a caller passes, and the one mask it passes with them
Bases == {"10.1.1.0", "10.1.2.0"}
Mask == "255.255.255.0"

\* Ipv4AddressHelper::SetBase(network, mask): the helper's cursor is put
\* back on the first host of the network
SetBase(h, network, mask) == [network |-> network, mask |-> mask, address |-> 1]

\* Ipv4AddressHelper::NewAddress(): the address under the cursor
NewAddress(h) == [network |-> h.network, mask |-> h.mask, host |-> h.address]

\* Ipv4AddressHelper::Assign(container): one NewAddress() for each device, in
\* order, the cursor moving on by one each time
RECURSIVE Assign(_, _, _)
Assign(s, h, ents) ==
    IF ents = <<>> THEN <<>>
    ELSE <<[sim |-> s, dev |-> Head(ents).n, addr |-> NewAddress(h)]>>
         \o Assign(s, [h EXCEPT !.address = @ + 1], Tail(ents))

\* ipv4_assign.  The helper is a member of the context, and SetBase is
\* called on it in every call.  The simulator's address generator, which is
\* process-wide, is told of every address handed out; told of one it already
\* holds, it ends the process with a fatal error, or (in its test mode) lets
\* the address be used again.
ipv4_assign(s, devs, networkBase, argNull) ==
    /\ CanCall
    /\ s \in live \cup {NullSim}
    /\ IF ~ValidateSim(s) \/ argNull \/ Len(devs) = 0
       THEN /\ Return("ipv4_assign", s, NS3_ERR, "arg")
            /\ UNCHANGED <<ctx, fault, allocated, assigned>>
       ELSE LET c == ctx[s]
                bad == FirstBad(c, "device", devs)
            IN  IF bad # 0
                THEN /\ ctx' = [ctx EXCEPT ![s] = LookupCtx(c, "device", devs[bad])]
                     /\ Return("ipv4_assign", s, NS3_ERR,
                               IF devs[bad] = 0 THEN "null_handle" ELSE "miss")
                     /\ UNCHANGED <<fault, allocated, assigned>>
                ELSE \E exc \in Throws :
                     IF exc # "none"
                     THEN /\ Catch("ipv4_assign", s, exc)
                          /\ UNCHANGED <<fault, allocated, assigned>>
                     ELSE LET devContainer == [i \in DOMAIN devs |->
                                                  Lookup(c, "device", devs[i])]
                              helper == SetBase(c.ipv4Helper, networkBase, Mask)
                              new == Assign(s, helper, devContainer)
                              addrs == {new[i].addr : i \in DOMAIN new}
                          IN  \E fatal \in IF addrs \cap allocated = {} THEN {FALSE}
                                            ELSE BOOLEAN :
                              IF fatal
                              THEN /\ fault' = "crash"
                                   /\ calls' = calls - 1
                                   /\ UNCHANGED <<ctx, ret, allocated, assigned>>
                              ELSE /\ ctx' = [ctx EXCEPT ![s].ipv4Helper =
                                                [helper EXCEPT !.address = @ + Len(new)]]
                                   /\ allocated' = allocated \cup addrs
                                   /\ assigned' = assigned \o new
                                   /\ Return("ipv4_assign", s, NS3_OK, "ok")
                                   /\ UNCHANGED fault
    /\ UNCHANGED <<live, simVars, stack, issued, sched, fired, stopReqs, destroyedInRun,
                   traces, config, collected, pktVars, thrVars>>

ipv4_populate_routing_tables(s) ==
    /\ CanCall
    /\ Facade("ipv4_populate_routing_tables", s, FALSE, "node", <<>>, "node", <<>>)

app_udpecho_server(s, node, outNull) ==
    /\ CanCall
    /\ Facade("app_udpecho_server", s, node = 0 \/ outNull, "node", <<node>>,
              "app", <<"UdpEchoServer">>)

app_udpecho_client(s, node, argNull) ==
    /\ CanCall
    /\ Facade("app_udpecho_client", s, node = 0 \/ argNull, "node", <<node>>,
              "app", <<"UdpEchoClient">>)

app_start(s, app) ==
    /\ CanCall
    /\ Facade("app_start", s, app = 0, "app", <<app>>, "app", <<>>)

app_stop(s, app) ==
    /\ CanCall
    /\ Facade("app_stop", s, app = 0, "app", <<app>>, "app", <<>>)

pcap_enable(s, dev, prefixNull) ==
    /\ CanCall
    /\ Facade("pcap_enable", s, dev = 0 \/ prefixNull, "device", <<dev>>,
              "device", <<>>)

flowmon_install_all(s, outNull) ==
    /\ CanCall
    /\ Facade("flowmon_install_all", s, outNull, "flowmon", <<>>,
              "flowmon", <<"FlowMonitor">>)

\* FlowMonitor::FlowStats of one flow, as far as flowmon_collect reads it.
\* Times are counted in ticks of the simulator's clock; GetSeconds() scales
\* every one of them alike.
FlowStats ==
    {[txPackets |-> 2, rxPackets |-> 1, txBytes |-> 20, rxBytes |-> 10,
      delaySum |-> 3, jitterSum |-> 1],
     [txPackets |-> 1, rxPackets |-> 1, txBytes |-> 8, rxBytes |-> 8,
      delaySum |-> 5, jitterSum |-> 0]}

\* what monitor->GetFlowStats() can return: a map from flow IDs 1 .. n
FlowMaps == UNION {[1 .. n -> FlowStats] : n \in 0 .. MaxFlows}

\* the local accumulators of flowmon_collect as they are initialised
ZeroTotals ==
    [txPackets |-> 0, rxPackets |-> 0, txBytes |-> 0, rxBytes |-> 0,
     delaySum |-> 0, jitterSum |-> 0]

\* the loop "for (auto& flow : stats) { ... }" of flowmon_collect
RECURSIVE Accumulate(_, _)
Accumulate(acc, stats) ==
    IF stats = <<>> THEN acc
    ELSE LET flow == Head(stats)
             acc1 == [acc EXCEPT !.txPackets = @ + flow.txPackets,
                                 !.rxPackets = @ + flow.rxPackets,
                                 !.txBytes = @ + flow.txBytes,
                                 !.rxBytes = @ + flow.rxBytes,
                                 !.delaySum = @ + flow.delaySum]
             acc2 == [acc1 EXCEPT !.delaySum = @ + flow.jitterSum]
         IN  Accumulate(acc2, Tail(stats))

\* the ns3_flow_stats written through outStats
OutStats(stats) ==
    LET acc == Accumulate(ZeroTotals, stats)
    IN  [txPackets |-> acc.txPackets, rxPackets |-> acc.rxPackets,
         txBytes |-> acc.txBytes, rxBytes |-> acc.rxBytes,
         delaySumSec |-> acc.delaySum, jitterSumSec |-> acc.jitterSum,
         flowCount |-> Len(stats)]

\* no flowmon_collect has written anything yet
NoStats == [stats |-> <<>>, out |-> OutStats(<<>>)]

flowmon_collect(s, fm, outNull) ==
    /\ CanCall
    /\ s \in live \cup {NullSim}
    /\ IF ~ValidateSim(s) \/ fm = 0 \/ outNull
       THEN /\ Return("flowmon_collect", s, NS3_ERR, "arg")
            /\ UNCHANGED <<ctx, collected>>
       ELSE LET c == ctx[s]
                monitor == Lookup(c, "flowmon", fm)
            IN  IF monitor = NullEnt
                THEN /\ ctx' = [ctx EXCEPT ![s] = LookupCtx(c, "flowmon", fm)]
                     /\ Return("flowmon_collect", s, NS3_ERR, "miss")
                     /\ UNCHANGED collected
                ELSE \E exc \in Throws :
                     IF exc # "none"
                     THEN /\ Catch("flowmon_collect", s, exc)
                          /\ UNCHANGED collected
                     ELSE \E stats \in FlowMaps :
                          /\ collected' = [stats |-> stats, out |-> OutStats(stats)]
                          /\ Return("flowmon_collect", s, NS3_OK, "ok")
                          /\ UNCHANGED ctx
    /\ UNCHANGED <<live, simVars, loopVars, issued, traces, config, allocated, assigned,
                   pktVars, thrVars>>

sim_set_seed(s) ==
    /\ CanCall
    /\ Facade("sim_set_seed", s, FALSE, "node", <<>>, "node", <<>>)

\* the user pointers a caller passes with its packet callbacks
Users == {"u1", "u2"}

\* a sink that is always connected to PhyTxEnd
TraceSinkTx(s, device, dev, side, user) ==
    [sim |-> s, dev |-> device.n, deviceId |-> HandleToId(dev), side |-> "tx",
     cb |-> IF side = "tx" THEN "onTx" ELSE "onRx", user |-> user]
\* "new PacketTraceContext{onTx, onRx, user, deviceId}" as one of the two
\* lambdas holds it: the lambda connected to PhyTxEnd calls ctx->onTx, the one
\* connected to PhyRxEnd calls ctx->onRx
TraceSink(s, device, dev, side, user) ==
    [sim |-> s, dev |-> device.n, deviceId |-> HandleToId(dev), side |-> side,
     cb |-> IF side = "tx" THEN "onTx" ELSE "onRx", user |-> user]

\* trace_subscribe_packet_events.  The device is cast with
\* GetObject<PointToPointNetDevice>(), which is the null Ptr for a device of
\* another type, and the result is dereferenced unchecked.
trace_subscribe_packet_events(s, dev, onTx, onRx, user, exc) ==
    /\ CanCall
    /\ s \in live \cup {NullSim}
    /\ IF ~ValidateSim(s) \/ dev = 0
       THEN /\ Return("trace_subscribe_packet_events", s, NS3_ERR, "arg")
            /\ UNCHANGED <<ctx, traces, fault>>
       ELSE LET c == ctx[s]
                device == Lookup(c, "device", dev)
            IN  IF device = NullEnt
                THEN /\ ctx' = [ctx EXCEPT ![s] = LookupCtx(c, "device", dev)]
                     /\ Return("trace_subscribe_packet_events", s, NS3_ERR, "miss")
                     /\ UNCHANGED <<traces, fault>>
                ELSE IF (onTx \/ onRx) /\ device.type # "PointToPointNetDevice"
                THEN /\ fault' = "crash"
                     /\ calls' = calls - 1
                     /\ UNCHANGED <<ctx, traces, ret>>
                ELSE IF exc # "none"
                THEN /\ Catch("trace_subscribe_packet_events", s, exc)
                     /\ UNCHANGED <<traces, fault>>
                ELSE /\ Len(traces) + (IF onTx THEN 1 ELSE 0) + (IF onRx THEN 1 ELSE 0)
                            <= MaxSinks
                     /\ traces' = traces
                            \o (IF onTx THEN <<TraceSink(s, device, dev, "tx", user)>>
                                ELSE <<>>)
                            \o (IF onRx THEN <<TraceSink(s, device, dev, "rx", user)>>
                                ELSE <<>>)
                     /\ Return("trace_subscribe_packet_events", s, NS3_OK, "ok")
                     /\ UNCHANGED <<ctx, fault>>
    /\ UNCHANGED <<live, simVars, stack, issued, sched, fired, stopReqs, destroyedInRun,
                   config, netVars, pktVars, thrVars>>

(***************************************************************************)
(* Attributes.                                                             *)
(***************************************************************************)
NS3_ATTR_BOOL == 0
NS3_ATTR_UINT == 1
NS3_ATTR_DOUBLE == 2
NS3_ATTR_STRING == 3

\* a decoder that wraps every payload as a string
WrapperAllString == <<"StringValue", "StringValue", "StringValue", "StringValue">>
\* the AttributeValue class config_set wraps the payload in, by tag
Wrapper == <<"BooleanValue", "UintegerValue", "DoubleValue", "StringValue">>

\* config_set: value is [kind, null]: the tag and, for a string, whether the
\* payload pointer is null
config_set(s, path, attrName, argNull, value, exc) ==
    /\ CanCall
    /\ s \in live \cup {NullSim}
    /\ IF ~ValidateSim(s) \/ argNull
       THEN /\ Return("config_set", s, NS3_ERR, "arg")
            /\ UNCHANGED <<ctx, config>>
       ELSE IF value.kind \notin {NS3_ATTR_BOOL, NS3_ATTR_UINT, NS3_ATTR_DOUBLE,
                                  NS3_ATTR_STRING}
       THEN /\ ctx' = [ctx EXCEPT ![s] = SetError(@, "Invalid attribute kind")]
            /\ Return("config_set", s, NS3_ERR, "kind")
            /\ UNCHANGED config
       ELSE IF value.kind = NS3_ATTR_STRING /\ value.null
       THEN /\ Return("config_set", s, NS3_ERR, "null_payload")
            /\ UNCHANGED <<ctx, config>>
       ELSE IF exc # "none"
       THEN /\ Catch("config_set", s, exc)
            /\ UNCHANGED config
       ELSE /\ config' = Append(config, [path |-> path \o "/" \o attrName,
                                         wrapper |-> Wrapper[value.kind + 1]])
            /\ Return("config_set", s, NS3_OK, "ok")
            /\ UNCHANGED ctx
    /\ UNCHANGED <<live, simVars, loopVars, issued, traces, netVars, pktVars, thrVars>>

(***************************************************************************)
(* The error slot.                                                         *)
(***************************************************************************)
\* a length that ignores the size of the buffer
MinFirst(a, b) == a
\* std::min
Min(a, b) == IF a <= b THEN a ELSE b

\* ns3_last_error: the message, cut to len - 1 bytes, is copied to the buffer
ns3_last_error(s, bufNull, len) ==
    /\ CanCall
    /\ s \in live \cup {NullSim}
    /\ IF bufNull \/ len = 0
       THEN Return("ns3_last_error", s, NS3_ERR, "arg")
       ELSE LET msg == IF s # NullSim THEN GetError(ctx[s]) ELSE "No simulation context"
                copyLen == Min(Len(msg), len - 1)
            IN  /\ ret' = [op |-> "ns3_last_error", sim |-> s, status |-> NS3_OK,
                           cause |-> "ok", out |-> SubSeq(msg, 1, copyLen), val |-> 0,
                           prev |-> [op |-> ret.op, sim |-> ret.sim,
                                     status |-> ret.status, cause |-> ret.cause]]
                /\ calls' = calls - 1
    /\ UNCHANGED <<live, ctx, simVars, loopVars, issued, auxVars>>

(***************************************************************************)
(* Two threads on the error slot of one context: the writer is inside an   *)
(* entry point that fails and calls SetError, the reader calls             *)
(* ns3_last_error.  std::string assignment and copy move the bytes in more *)
(* than one step, so each is two steps here; the lock_guard of SetError    *)
(* and of GetError is a lock step before and an unlock step after.         *)
(***************************************************************************)
Threads == {"writer", "reader"}
\* some of the messages the entry points pass to SetError
Messages == {InvalidMsg.node, InvalidMsg.device, "sim_stop failed: " \o What}

\* the steps a thread makes while it holds the lock_guard
Critical == {"store1", "store2", "copy1", "copy2", "unlock"}

CanLockAlways(owner) == TRUE
\* std::mutex::lock returns only when no thread owns the mutex
CanLock(owner) == owner = "free"

\* the bytes of string old after the first half of string new was stored
Torn(new, old) ==
    LET h == Len(new) \div 2
    IN  SubSeq(new, 1, h) \o (IF Len(old) > h THEN SubSeq(old, h + 1, Len(old)) ELSE "")

ThreadFrame == UNCHANGED <<live, simVars, loopVars, ret, issued, traces, config, netVars,
                           pktVars, calls>>

\* a failing entry point reaches sim->SetError(msg)
SetErrorCall(s, msg) ==
    /\ s \in live
    /\ pc["writer"] = "idle"
    /\ Len(written) < MaxWrites
    /\ pc' = [pc EXCEPT !["writer"] = "lock"]
    /\ tmp' = [tmp EXCEPT !["writer"] = msg]
    /\ written' = Append(written, msg)
    /\ UNCHANGED <<ctx, mutex, copied>>
    /\ ThreadFrame

\* ns3_last_error(sim, buf, len) with a buffer reaches sim->GetError()
GetErrorCall(s) ==
    /\ s \in live
    /\ pc["reader"] = "idle"
    /\ Len(copied) < MaxReads
    /\ pc' = [pc EXCEPT !["reader"] = "lock"]
    /\ UNCHANGED <<ctx, mutex, tmp, written, copied>>
    /\ ThreadFrame

\* std::lock_guard<std::mutex> lock(errorMutex)
Lock(t) ==
    /\ pc[t] = "lock"
    /\ CanLock(mutex)
    /\ mutex' = t
    /\ pc' = [pc EXCEPT ![t] = IF t = "writer" THEN "store1" ELSE "copy1"]
    /\ UNCHANGED <<ctx, tmp, written, copied>>
    /\ ThreadFrame

\* lastError = msg, the first bytes
Store1(s) ==
    /\ s \in live
    /\ pc["writer"] = "store1"
    /\ ctx' = [ctx EXCEPT ![s] = SetError(ctx[s], Torn(tmp["writer"], GetError(ctx[s])))]
    /\ pc' = [pc EXCEPT !["writer"] = "store2"]
    /\ UNCHANGED <<mutex, tmp, written, copied>>
    /\ ThreadFrame

\* lastError = msg, the rest
Store2(s) ==
    /\ s \in live
    /\ pc["writer"] = "store2"
    /\ ctx' = [ctx EXCEPT ![s] = SetError(ctx[s], tmp["writer"])]
    /\ pc' = [pc EXCEPT !["writer"] = "unlock"]
    /\ UNCHANGED <<mutex, tmp, written, copied>>
    /\ ThreadFrame

\* return lastError: the copy that is returned, the first bytes
Copy1(s) ==
    /\ s \in live
    /\ pc["reader"] = "copy1"
    /\ LET cur == GetError(ctx[s])
       IN  tmp' = [tmp EXCEPT !["reader"] = SubSeq(cur, 1, Len(cur) \div 2)]
    /\ pc' = [pc EXCEPT !["reader"] = "copy2"]
    /\ UNCHANGED <<ctx, mutex, written, copied>>
    /\ ThreadFrame

\* return lastError: the rest of the copy
Copy2(s) ==
    /\ s \in live
    /\ pc["reader"] = "copy2"
    /\ LET cur == GetError(ctx[s])
           got == Len(tmp["reader"])
       IN  tmp' = [tmp EXCEPT !["reader"] =
                      IF Len(cur) > got THEN @ \o SubSeq(cur, got + 1, Len(cur)) ELSE @]
    /\ pc' = [pc EXCEPT !["reader"] = "unlock"]
    /\ UNCHANGED <<ctx, mutex, written, copied>>
    /\ ThreadFrame

\* the destructor of the lock_guard; the reader goes on in ns3_last_error
Unlock(t) ==
    /\ pc[t] = "unlock"
    /\ mutex' = "free"
    /\ pc' = [pc EXCEPT ![t] = IF t = "writer" THEN "idle" ELSE "memcpy"]
    /\ UNCHANGED <<ctx, tmp, written, copied>>
    /\ ThreadFrame

\* ns3_last_error: copyLen bytes of the local msg go to the caller's buffer
Memcpy(len) ==
    /\ pc["reader"] = "memcpy"
    /\ LET msg == tmp["reader"]
           copyLen == Min(Len(msg), len - 1)
       IN  copied' = Append(copied, SubSeq(msg, 1, copyLen))
    /\ pc' = [pc EXCEPT !["reader"] = "idle"]
    /\ UNCHANGED <<ctx, mutex, tmp, written>>
    /\ ThreadFrame

(***************************************************************************)
(* The simulator below the boundary (ns-3's Simulator): process-wide.      *)
(* An event is [kind, e, ts]: the callback of sim_schedule call e, or the  *)
(* stop event that Simulator::Stop(delay) schedules, due at time ts.       *)
(* Events are dispatched in time order, equal times in insertion order.    *)
(***************************************************************************)
\* Simulator::Schedule(delay, f): insert behind every event due no later
RECURSIVE Insert(_, _)
Insert(q, ev) ==
    IF q = <<>> THEN <<ev>>
    ELSE IF Head(q).ts <= ev.ts THEN <<Head(q)>> \o Insert(Tail(q), ev)
    ELSE <<ev>> \o q

\* Simulator::Stop(delay): the stop event is due a delay after now
SimulatorStop(q, t, delay) == Insert(q, [kind |-> "stop", e |-> 0, ts |-> t + delay])

\* Simulator::Schedule(delay, callback of call e)
SimulatorSchedule(q, t, delay, e) == Insert(q, [kind |-> "cb", e |-> e, ts |-> t + delay])

RunFrame(s) == [kind |-> "run", sim |-> s, e |-> 0, stale |-> FALSE, dead |-> FALSE]
CbFrame(e) == [kind |-> "cb", sim |-> NullSim, e |-> e, stale |-> FALSE, dead |-> FALSE]

Pop(st) == SubSeq(st, 1, Len(st) - 1)

RunDepth == Cardinality({i \in DOMAIN stack : stack[i].kind = "run"})

InRun(s) == \E i \in DOMAIN stack : stack[i].kind = "run" /\ stack[i].sim = s /\ ~stack[i].dead

(***************************************************************************)
(* Simulation lifecycle.                                                   *)
(***************************************************************************)
\* sim_create: *outSim = new ns3_sim_t().  The new context is at an address
\* no live context has; the address of a deleted one can be handed out again.
sim_create(s, outNull, exc) ==
    /\ CanCall
    /\ s \in Sims \ live
    /\ IF outNull
       THEN /\ Return("sim_create", NullSim, NS3_ERR, "arg")
            /\ UNCHANGED <<live, ctx>>
       ELSE IF exc = "std"
       THEN /\ Return("sim_create", NullSim, NS3_ERR, "exception")
            /\ UNCHANGED <<live, ctx>>
       ELSE IF exc = "other"
       THEN /\ Return("sim_create", NullSim, THROWN, "exception")
            /\ UNCHANGED <<live, ctx>>
       ELSE /\ live' = live \cup {s}
            /\ ctx' = [ctx EXCEPT ![s] = NewSim]
            /\ Return("sim_create", s, NS3_OK, "ok")
    /\ UNCHANGED <<simVars, loopVars, issued, auxVars>>

sim_is_running(s, outNull) ==
    /\ CanCall
    /\ s \in live \cup {NullSim}
    /\ IF ~ValidateSim(s) \/ outNull
       THEN Return("sim_is_running", s, NS3_ERR, "arg")
       ELSE /\ ret' = [op |-> "sim_is_running", sim |-> s, status |-> NS3_OK,
                       cause |-> "ok", out |-> "",
                       val |-> IF ctx[s].isRunning THEN 1 ELSE 0, prev |-> NoPrev]
            /\ calls' = calls - 1
    /\ UNCHANGED <<live, ctx, simVars, loopVars, issued, auxVars>>

sim_now(s, outNull, exc) ==
    /\ CanCall
    /\ s \in live \cup {NullSim}
    /\ IF ~ValidateSim(s) \/ outNull
       THEN Return("sim_now", s, NS3_ERR, "arg") /\ UNCHANGED ctx
       ELSE IF exc # "none"
       THEN Catch("sim_now", s, exc)
       ELSE /\ ret' = [op |-> "sim_now", sim |-> s, status |-> NS3_OK, cause |-> "ok",
                       out |-> "", val |-> now, prev |-> NoPrev]
            /\ calls' = calls - 1
            /\ UNCHANGED ctx
    /\ UNCHANGED <<live, simVars, loopVars, issued, auxVars>>


sim_schedule(s, inSeconds, cbNull, exc) ==
    /\ CanCall
    /\ s \in live \cup {NullSim}
    /\ IF ~ValidateSim(s) \/ cbNull
       THEN /\ Return("sim_schedule", s, NS3_ERR, "arg")
            /\ UNCHANGED <<ctx, events, sched, fired>>
       ELSE IF exc # "none"
       THEN /\ Catch("sim_schedule", s, exc)
            /\ UNCHANGED <<events, sched, fired>>
       ELSE /\ Len(sched) < MaxEvents
            /\ now + inSeconds <= MaxTime
            /\ events' = SimulatorSchedule(events, now, inSeconds, Len(sched) + 1)
            /\ sched' = Append(sched, [sim |-> s, due |-> now + inSeconds])
            /\ fired' = Append(fired, 0)
            /\ Return("sim_schedule", s, NS3_OK, "ok")
            /\ UNCHANGED ctx
    /\ UNCHANGED <<live, now, stopped, stack, fault, issued, stopReqs, destroyedInRun,
                   auxVars>>

sim_stop(s, atTimeSec, exc) ==
    /\ CanCall
    /\ s \in live \cup {NullSim}
    /\ IF ~ValidateSim(s)
       THEN /\ Return("sim_stop", s, NS3_ERR, "arg")
            /\ UNCHANGED <<ctx, events, stopReqs>>
       ELSE IF exc # "none"
       THEN /\ Catch("sim_stop", s, exc)
            /\ UNCHANGED <<events, stopReqs>>
       ELSE /\ now + atTimeSec <= MaxTime
            /\ events' = SimulatorStop(events, now, atTimeSec)
            /\ stopReqs' = stopReqs \cup {[sim |-> s, T |-> atTimeSec, at |-> now,
                                           inCb |-> stack # <<>>]}
            /\ Return("sim_stop", s, NS3_OK, "ok")
            /\ UNCHANGED ctx
    /\ UNCHANGED <<live, now, stopped, stack, fault, issued, sched, fired, destroyedInRun,
                   auxVars>>

\* sim_run up to the call of Simulator::Run(), which clears the stop flag and
\* enters the loop; the caller is suspended until the frame is popped
sim_run(s) ==
    /\ CanCall
    /\ s \in live \cup {NullSim}
    /\ IF ~ValidateSim(s)
       THEN /\ Return("sim_run", s, NS3_ERR, "arg")
            /\ UNCHANGED <<ctx, stopped, stack>>
       ELSE /\ RunDepth < MaxDepth
            /\ ctx' = [ctx EXCEPT ![s].isRunning = TRUE]
            /\ stopped' = FALSE
            /\ stack' = Append(stack, RunFrame(s))
            /\ calls' = calls - 1
            /\ UNCHANGED ret
    /\ UNCHANGED <<live, now, events, fault, issued, sched, fired, stopReqs, destroyedInRun,
                   auxVars>>

\* one turn of the loop of Simulator::Run(): the next event is removed, the
\* clock moves to its time, and it is invoked
Dispatch ==
    /\ fault # "crash"
    /\ stack # <<>> /\ Top.kind = "run" /\ ~Top.stale
    /\ events # <<>> /\ ~stopped
    /\ now' = Head(events).ts
    /\ events' = Tail(events)
    /\ IF Head(events).kind = "stop"
       THEN /\ stopped' = TRUE
            /\ UNCHANGED <<stack, fired>>
       ELSE /\ stack' = Append(stack, CbFrame(Head(events).e))
            /\ fired' = [fired EXCEPT ![Head(events).e] = @ + 1]
            /\ UNCHANGED stopped
    /\ UNCHANGED <<live, ctx, fault, ret, issued, sched, stopReqs, destroyedInRun, calls,
                   auxVars>>

\* the callback returns to the loop
CbReturn ==
    /\ fault # "crash"
    /\ stack # <<>> /\ Top.kind = "cb"
    /\ stack' = Pop(stack)
    /\ UNCHANGED <<live, ctx, simVars, fault, ret, issued, sched, fired, stopReqs,
                   destroyedInRun, calls, auxVars>>

\* a sink that hears both trace sources of its device
ConnectedToDevice(sink, d, side) == sink.dev = d
\* TraceConnectWithoutContext("PhyTxEnd" / "PhyRxEnd", ...) on the device:
\* the sink hears that trace source of that device and no other
Connected(sink, d, side) == sink.dev = d /\ sink.side = side

\* the calls a packet event on device d makes: every sink connected to that
\* side of d is invoked, in the order of connection, with
\* (ctx->user, ctx->deviceId, Simulator::Now().GetSeconds(), size)
RECURSIVE Invocations(_, _, _, _, _, _)
Invocations(sinks, i, d, side, t, pkt) ==
    IF i > Len(sinks) THEN <<>>
    ELSE (IF Connected(sinks[i], d, side)
          THEN <<[sink |-> i, cb |-> sinks[i].cb, user |-> sinks[i].user,
                  deviceId |-> sinks[i].deviceId, time |-> t, pkt |-> pkt]>>
          ELSE <<>>)
         \o Invocations(sinks, i + 1, d, side, t, pkt)

\* the devices the simulator holds: those registered in a live context
DeviceEnts == UNION {{e.n : e \in Range(ctx[s].devices)} : s \in live}

\* one turn of the loop in which the simulator ends the transmission
\* (PhyTxEnd) or the reception (PhyRxEnd) of a packet on device d at time t
PacketEvent(d, side, t) ==
    /\ fault # "crash"
    /\ stack # <<>> /\ Top.kind = "run" /\ ~Top.stale
    /\ ~stopped
    /\ packets < MaxPackets
    /\ d \in DeviceEnts
    /\ t >= now
    /\ IF events = <<>> THEN TRUE ELSE t <= Head(events).ts
    /\ now' = t
    /\ packets' = packets + 1
    /\ delivered' = delivered \o Invocations(traces, 1, d, side, t, packets + 1)
    /\ UNCHANGED <<live, ctx, events, stopped, loopVars, ret, issued, traces, config,
                   netVars, thrVars, calls>>

\* the rest of sim_run once Simulator::Run() is over, for the frame fr:
\*   normally:             sim->isRunning = false; return NS3_OK;
\*   catch std::exception: sim->isRunning = false; sim->SetError(...); return NS3_ERR;
\* When the context was deleted meanwhile these are writes to freed memory;
\* they land in the context that now has the address, if there is one.
RunEpilogue(fr, exc) ==
    LET s == fr.sim
        c1 == [ctx[s] EXCEPT !.isRunning = FALSE]
        c2 == IF exc = "std" THEN SetError(c1, "sim_run failed: " \o What) ELSE c1
    IN  /\ ctx' = IF s \in live THEN [ctx EXCEPT ![s] = c2] ELSE ctx
        /\ fault' = IF fr.dead THEN "uaf" ELSE fault
        /\ ret' = [op |-> "sim_run", sim |-> s,
                   status |-> IF exc = "std" THEN NS3_ERR ELSE NS3_OK,
                   cause |-> IF exc = "std" THEN "exception"
                             ELSE IF stopped THEN "stopped" ELSE "drained",
                   out |-> "", val |-> 0, prev |-> NoPrev]

\* the loop ends: the queue is empty or the stop flag is set
RunReturn ==
    /\ fault # "crash"
    /\ stack # <<>> /\ Top.kind = "run" /\ ~Top.stale
    /\ IF events = <<>> THEN TRUE ELSE stopped
    /\ RunEpilogue(Top, "none")
    /\ stack' = Pop(stack)
    /\ stopReqs' = {}
    /\ UNCHANGED <<live, simVars, issued, sched, fired, destroyedInRun, calls, auxVars>>

\* the callback throws.  A std::exception is caught by the sim_run whose loop
\* invoked it; anything else passes every handler up to the top-level caller,
\* and no sim_run on the way restores its running flag.  Unwinding reads
\* nothing of the simulator, so it goes the same way when the simulator was
\* deleted under the loop.
CbThrow(exc) ==
    /\ fault # "crash"
    /\ exc # "none"
    /\ stack # <<>> /\ Top.kind = "cb"
    /\ IF exc = "std"
       THEN /\ RunEpilogue(stack[Len(stack) - 1], "std")
            /\ stack' = SubSeq(stack, 1, Len(stack) - 2)
       ELSE /\ stack' = <<>>
            /\ ret' = [op |-> "sim_run", sim |-> stack[1].sim, status |-> THROWN,
                       cause |-> "exception", out |-> "", val |-> 0, prev |-> NoPrev]
            /\ UNCHANGED <<ctx, fault>>
    /\ stopReqs' = {}
    /\ UNCHANGED <<live, simVars, issued, sched, fired, destroyedInRun, calls, auxVars>>

\* a handler that forgets to free the context
DeleteNever(allocd, s) == allocd
\* "delete sim": the allocated contexts without s
Delete(allocd, s) == allocd \ {s}

\* sim_destroy: Simulator::Destroy() deletes the process-wide simulator (its
\* queue, its clock, its stop flag) and a later use makes a new one; then
\* the context is deleted.  A Simulator::Run() that is active goes on in the
\* deleted simulator, and a sim_run that is active on the deleted context
\* still holds its pointer.
sim_destroy(s, exc) ==
    /\ CanCall
    /\ s \in live \cup {NullSim}
    /\ IF s = NullSim
       THEN /\ Return("sim_destroy", s, NS3_OK, "null")
            /\ UNCHANGED <<live, ctx, simVars, stack, issued, sched, stopReqs,
                           destroyedInRun, traces, allocated, assigned>>
       ELSE /\ IF exc = "none"
               THEN /\ now' = 0
                    /\ events' = <<>>
                    /\ stopped' = FALSE
                    /\ stopReqs' = {}
               ELSE UNCHANGED <<simVars, stopReqs>>
            /\ stack' = [i \in DOMAIN stack |->
                           IF stack[i].kind = "run"
                           THEN [stack[i] EXCEPT !.stale = @ \/ exc = "none",
                                                 !.dead = @ \/ stack[i].sim = s]
                           ELSE stack[i]]
            /\ destroyedInRun' = IF InRun(s) THEN destroyedInRun \cup {s}
                                 ELSE destroyedInRun
            /\ live' = Delete(live, s)
            /\ ctx' = [ctx EXCEPT ![s] = NewSim]
            /\ issued' = [issued EXCEPT ![s] = [k \in Kinds |-> <<>>]]
            /\ traces' = IF exc = "none" THEN <<>> ELSE traces
            /\ allocated' = IF exc = "none" THEN {} ELSE allocated
            /\ assigned' = SelectSeq(assigned, LAMBDA r : r.sim # s)
            /\ sched' = [e \in DOMAIN sched |->
                            IF sched[e].sim = s THEN [sched[e] EXCEPT !.sim = NullSim]
                            ELSE sched[e]]
            /\ Return("sim_destroy", s, IF exc = "none" THEN NS3_OK ELSE NS3_ERR,
                      IF exc = "none" THEN "ok" ELSE "exception")
    /\ UNCHANGED <<fault, fired, config, collected, pktVars, thrVars>>

\* a Simulator::Run() whose simulator was deleted under it reads freed
\* memory at its next loop test: the process dies there, or the test reads
\* an empty queue and Simulator::Run() returns into sim_run
StaleLoop(crash) ==
    /\ fault # "crash"
    /\ stack # <<>> /\ Top.kind = "run" /\ Top.stale
    /\ IF crash
       THEN /\ fault' = "crash"
            /\ UNCHANGED <<ctx, ret, stack, stopReqs>>
       ELSE /\ RunEpilogue(Top, "none")
            /\ stack' = Pop(stack)
            /\ stopReqs' = {}
    /\ UNCHANGED <<live, simVars, issued, sched, fired, destroyedInRun, calls, auxVars>>

(***************************************************************************)
(* Specifications.                                                         *)
(***************************************************************************)
Init ==
    /\ live = {}
    /\ ctx = [s \in Sims |-> NewSim]
    /\ now = 0
    /\ events = <<>>
    /\ stopped = FALSE
    /\ stack = <<>>
    /\ fault = "none"
    /\ ret = NoRet
    /\ issued = [s \in Sims |-> [k \in Kinds |-> <<>>]]
    /\ sched = <<>>
    /\ fired = <<>>
    /\ stopReqs = {}
    /\ destroyedInRun = {}
    /\ traces = <<>>
    /\ delivered = <<>>
    /\ packets = 0
    /\ config = <<>>
    /\ allocated = {}
    /\ assigned = <<>>
    /\ collected = NoStats
    /\ mutex = "free"
    /\ pc = [t \in Threads |-> "idle"]
    /\ tmp = [t \in Threads |-> ""]
    /\ written = <<>>
    /\ copied = <<>>

InitLoop == Init /\ calls = MaxLoopCalls

InitReg == Init /\ calls = MaxRegCalls

InitErr == Init /\ calls = MaxErrCalls

InitAddr == Init /\ calls = MaxAddrCalls

InitTrace == Init /\ calls = MaxTraceCalls

\* the simulation argument a caller passes: a live context or the null pointer
SimArgs == live \cup {NullSim}
\* operator new returns an address that no live context has; which one is
\* the allocator's choice, and the lowest free one stands for it
NewSims == {s \in Sims \ live : \A r \in Sims \ live : s <= r}
\* The arguments that decide nothing are not varied: with a null simulation
\* or a null pointer argument the entry point returns before reading the rest.
NullArgs(s) == IF s = NullSim THEN {FALSE} ELSE BOOLEAN
ArrayArgs(s, argNull) == IF s = NullSim \/ argNull THEN {<<>>} ELSE HandleArrays
HandleArgs(s, argNull) == IF s = NullSim \/ argNull THEN {0} ELSE Handles
BaseArgs(s, argNull) == IF s = NullSim \/ argNull THEN {"10.1.1.0"} ELSE Bases

\* the event loop and the lifecycle
NextLoop ==
    \/ \E s \in NewSims, outNull \in BOOLEAN, exc \in Throws : sim_create(s, outNull, exc)
    \/ \E s \in SimArgs, exc \in Throws : sim_destroy(s, exc)
    \/ \E s \in SimArgs, t \in 0 .. MaxTime, cbNull \in BOOLEAN,
          exc \in Throws : sim_schedule(s, t, cbNull, exc)
    \/ \E s \in SimArgs, t \in 0 .. MaxTime, exc \in Throws :
          sim_stop(s, t, exc)
    \/ \E s \in SimArgs : sim_run(s)
    \/ \E s \in SimArgs, outNull \in BOOLEAN : sim_is_running(s, outNull)
    \/ \E s \in SimArgs, outNull \in BOOLEAN, exc \in Throws :
          sim_now(s, outNull, exc)
    \/ Dispatch
    \/ CbReturn
    \/ RunReturn
    \/ \E exc \in {"std", "other"} : CbThrow(exc)
    \/ \E crash \in BOOLEAN : StaleLoop(crash)

SpecLoop == InitLoop /\ [][NextLoop]_vars

\* the registries and the lifecycle
NextReg ==
    \/ \E s \in NewSims, outNull \in BOOLEAN, exc \in Throws : sim_create(s, outNull, exc)
    \/ \E s \in SimArgs, exc \in Throws : sim_destroy(s, exc)
    \/ \E s \in SimArgs : \E outNull \in NullArgs(s) :
       \E count \in IF s = NullSim \/ outNull THEN {0} ELSE 0 .. MaxCount :
          nodes_create(s, count, outNull)
    \/ \E s \in SimArgs : \E argNull \in NullArgs(s) : \E arr \in ArrayArgs(s, argNull) :
          internet_install(s, arr, argNull)
    \/ \E s \in SimArgs : \E argNull \in NullArgs(s) : \E arr \in ArrayArgs(s, argNull) :
          csma_install(s, arr, argNull)
    \/ \E s \in SimArgs : \E argNull \in NullArgs(s) : \E arr \in ArrayArgs(s, argNull) :
       \E base \in BaseArgs(s, argNull) : ipv4_assign(s, arr, base, argNull)
    \/ \E s \in SimArgs : \E argNull \in NullArgs(s) : \E a \in HandleArgs(s, argNull) :
       \E b \in HandleArgs(s, argNull) : p2p_install(s, a, b, argNull)
    \/ \E s \in SimArgs : \E argNull \in NullArgs(s) : \E stas \in ArrayArgs(s, argNull) :
       \E ap \in HandleArgs(s, argNull) : wifi_install_sta_ap(s, stas, ap, argNull)
    \/ \E s \in SimArgs : \E argNull \in NullArgs(s) : \E h \in HandleArgs(s, argNull) :
          app_udpecho_server(s, h, argNull)
    \/ \E s \in SimArgs : \E argNull \in NullArgs(s) : \E h \in HandleArgs(s, argNull) :
          app_udpecho_client(s, h, argNull)
    \/ \E s \in SimArgs : \E h \in HandleArgs(s, FALSE) : app_start(s, h)
    \/ \E s \in SimArgs : \E outNull \in NullArgs(s) : flowmon_install_all(s, outNull)
    \/ \E s \in SimArgs : \E argNull \in NullArgs(s) : \E h \in HandleArgs(s, argNull) :
          flowmon_collect(s, h, argNull)

SpecReg == InitReg /\ [][NextReg]_vars

\* the tags of a value: those of ns3_attr_kind and one outside it
AttrKinds == NS3_ATTR_BOOL .. NS3_ATTR_STRING + 1
\* buffer sizes: none, room for the terminator only, room for seven bytes of
\* a message, and room for every message
LenArgs == {0, 1, 8, BufSize}

\* every entry point but sim_run, whose callbacks the event-loop
\* specification runs
NextErr ==
    \/ \E s \in NewSims, outNull \in BOOLEAN, exc \in Throws : sim_create(s, outNull, exc)
    \/ \E s \in SimArgs, exc \in Throws : sim_destroy(s, exc)
    \/ \E s \in SimArgs : sim_set_seed(s)
    \/ \E s \in SimArgs, t \in 0 .. MaxTime, cbNull \in BOOLEAN, exc \in Throws :
          sim_schedule(s, t, cbNull, exc)
    \/ \E s \in SimArgs, t \in 0 .. MaxTime, exc \in Throws : sim_stop(s, t, exc)
    \/ \E s \in SimArgs, outNull \in BOOLEAN : sim_is_running(s, outNull)
    \/ \E s \in SimArgs, outNull \in BOOLEAN, exc \in Throws : sim_now(s, outNull, exc)
    \/ \E s \in SimArgs : \E outNull \in NullArgs(s) :
       \E count \in IF s = NullSim \/ outNull THEN {0} ELSE 0 .. MaxCount :
          nodes_create(s, count, outNull)
    \/ \E s \in SimArgs : \E argNull \in NullArgs(s) : \E arr \in ArrayArgs(s, argNull) :
          internet_install(s, arr, argNull)
    \/ \E s \in SimArgs : \E argNull \in NullArgs(s) : \E arr \in ArrayArgs(s, argNull) :
          csma_install(s, arr, argNull)
    \/ \E s \in SimArgs : \E argNull \in NullArgs(s) : \E arr \in ArrayArgs(s, argNull) :
       \E base \in BaseArgs(s, argNull) : ipv4_assign(s, arr, base, argNull)
    \/ \E s \in SimArgs : ipv4_populate_routing_tables(s)
    \/ \E s \in SimArgs : \E argNull \in NullArgs(s) : \E a \in HandleArgs(s, argNull) :
       \E b \in HandleArgs(s, argNull) : p2p_install(s, a, b, argNull)
    \/ \E s \in SimArgs : \E argNull \in NullArgs(s) : \E stas \in ArrayArgs(s, argNull) :
       \E ap \in HandleArgs(s, argNull) : wifi_install_sta_ap(s, stas, ap, argNull)
    \/ \E s \in SimArgs : \E h \in HandleArgs(s, FALSE) :
          mobility_set_constant_position(s, h)
    \/ \E s \in SimArgs : \E argNull \in NullArgs(s) : \E h \in HandleArgs(s, argNull) :
          app_udpecho_server(s, h, argNull)
    \/ \E s \in SimArgs : \E argNull \in NullArgs(s) : \E h \in HandleArgs(s, argNull) :
          app_udpecho_client(s, h, argNull)
    \/ \E s \in SimArgs : \E h \in HandleArgs(s, FALSE) : app_start(s, h)
    \/ \E s \in SimArgs : \E h \in HandleArgs(s, FALSE) : app_stop(s, h)
    \/ \E s \in SimArgs : \E argNull \in NullArgs(s) : \E h \in HandleArgs(s, argNull) :
          pcap_enable(s, h, argNull)
    \/ \E s \in SimArgs : \E outNull \in NullArgs(s) : flowmon_install_all(s, outNull)
    \/ \E s \in SimArgs : \E argNull \in NullArgs(s) : \E h \in HandleArgs(s, argNull) :
          flowmon_collect(s, h, argNull)
    \/ \E s \in SimArgs : \E h \in HandleArgs(s, FALSE) :
       \E onTx \in BOOLEAN, onRx \in BOOLEAN, exc \in Throws :
          trace_subscribe_packet_events(s, h, onTx, onRx, "u1", exc)
    \/ \E s \in SimArgs : \E argNull \in NullArgs(s) :
       \E kind \in IF s = NullSim \/ argNull THEN {NS3_ATTR_BOOL} ELSE AttrKinds :
       \E null \in IF kind = NS3_ATTR_STRING THEN BOOLEAN ELSE {FALSE} :
       \E exc \in Throws :
          config_set(s, "/NodeList", "Attr", argNull, [kind |-> kind, null |-> null], exc)
    \/ \E s \in SimArgs, bufNull \in BOOLEAN, len \in LenArgs : ns3_last_error(s, bufNull, len)

SpecErr == InitErr /\ [][NextErr]_vars

\* address assignment: the lifecycle, and the shortest way to a device
NextAddr ==
    \/ \E s \in NewSims : sim_create(s, FALSE, "none")
    \/ \E s \in SimArgs, exc \in Throws : sim_destroy(s, exc)
    \/ \E s \in SimArgs : nodes_create(s, 1, FALSE)
    \/ \E s \in SimArgs : \E arr \in ArrayArgs(s, FALSE) : csma_install(s, arr, FALSE)
    \/ \E s \in SimArgs : \E argNull \in NullArgs(s) : \E arr \in ArrayArgs(s, argNull) :
       \E base \in BaseArgs(s, argNull) : ipv4_assign(s, arr, base, argNull)

SpecAddr == InitAddr /\ [][NextAddr]_vars

\* packet traces: the shortest way to a point-to-point and to a CSMA device,
\* subscriptions, and a run in which packets pass
\* one context, made by the one call the caller has; then the two threads
InitSlot == Init /\ calls = 1

NextSlot ==
    \/ \E s \in NewSims : sim_create(s, FALSE, "none")
    \/ \E s \in live, msg \in Messages : SetErrorCall(s, msg)
    \/ \E s \in live : GetErrorCall(s)
    \/ \E t \in Threads : Lock(t)
    \/ \E s \in live : Store1(s)
    \/ \E s \in live : Store2(s)
    \/ \E s \in live : Copy1(s)
    \/ \E s \in live : Copy2(s)
    \/ \E t \in Threads : Unlock(t)
    \/ Memcpy(BufSize)

SpecSlot == InitSlot /\ [][NextSlot]_vars

NextTrace ==
    \/ \E s \in NewSims : sim_create(s, FALSE, "none")
    \/ \E s \in live : nodes_create(s, 1, FALSE)
    \/ \E s \in live, a \in 1 .. MaxId : p2p_install(s, a, a, FALSE)
    \/ \E s \in live : csma_install(s, <<1>>, FALSE)
    \/ \E s \in live, h \in 1 .. MaxId, onTx \in BOOLEAN, onRx \in BOOLEAN, user \in Users :
          trace_subscribe_packet_events(s, h, onTx, onRx, user, "none")
    \/ \E s \in live : sim_run(s)
    \/ \E d \in DeviceEnts, side \in {"tx", "rx"}, t \in 0 .. MaxTime : PacketEvent(d, side, t)
    \/ RunReturn

SpecTrace == InitTrace /\ [][NextTrace]_vars

(***************************************************************************)
(* The properties.                                                         *)
(***************************************************************************)
\* the handles of kind k that simulation s has returned and that are live
IssuedOf(s, k) == {issued[s][k][i] : i \in DOMAIN issued[s][k]}

\* the entries <<simulation, kind, ID>> of all registries of all live contexts
Entries ==
    {x \in live \X Kinds \X (1 .. MaxId + 1) : x[3] \in DOMAIN ctx[x[1]][RegOf[x[2]]]}

IsPrefix(p, str) == Len(p) <= Len(str) /\ SubSeq(str, 1, Len(p)) = p

\* C1: a handle returned by one live simulation, presented to another live
\* simulation for resolution in the registry of its kind, misses there and
\* the other simulation's last-error is set to the kind's message, whatever
\* the other simulation has registered itself.
C1_ForeignHandleMisses ==
    \A s1 \in live, s2 \in live, k \in Kinds :
        s1 # s2 =>
            \A h \in IssuedOf(s1, k) :
                /\ Lookup(ctx[s2], k, h.id) = NullEnt
                /\ GetError(LookupCtx(ctx[s2], k, h.id)) = InvalidMsg[k]

\* C2: the running flag of a live simulation is true exactly while a sim_run
\* on it is in progress (from the call until the outermost one returns).
\* Stated for the executions in which every exception raised in the loop is
\* a std::exception and no context is destroyed during a run.
C2_RunningIffRunInProgress ==
    (ret.status # THROWN /\ destroyedInRun = {}) =>
        \A s \in live : ctx[s].isRunning = InRun(s)

\* what a failed call leaves in the error slot (new), given what it held (old)
SlotAfterFailure(r, old, new) ==
    CASE r.cause = "exception" -> new = r.op \o " failed: " \o What
      [] r.cause = "miss" -> new \in {InvalidMsg[k] : k \in Kinds}
      [] r.cause = "kind" -> new = "Invalid attribute kind"
      [] OTHER -> new = old

C4_IdsIncreaseFromOne ==
    \A s \in live, k \in Kinds :
        LET ids == issued[s][k]
        IN  /\ ids # <<>> => HandleToId(ids[1].id) = 1
            /\ \A i \in DOMAIN ids : HandleToId(ids[i].id) # 0
            /\ \A i \in DOMAIN ids, j \in DOMAIN ids :
                  i < j => HandleToId(ids[i].id) < HandleToId(ids[j].id)

\* C4 witness: a registry has issued two IDs
C4_Witness ==
    \E s \in live, k \in Kinds : Len(issued[s][k]) >= 2

\* C5: every handle a live simulation has returned resolves, in the registry
\* of its kind on that simulation, to the entity it was returned for,
\* whatever was called since.
C5_IssuedHandlesResolve ==
    \A s \in live, k \in Kinds :
        \A h \in IssuedOf(s, k) : Lookup(ctx[s], k, h.id) = h.ent

\* C5 witness: after two handles of a kind were returned, a later operation
\* has resolved a handle of that kind
C5_Witness ==
    \E s \in live :
        /\ Len(issued[s]["node"]) >= 2
        /\ ret.op = "internet_install" /\ ret.sim = s /\ ret.status = NS3_OK

\* C6 (as the code has it): every handle a live simulation has returned has
\* an entry in the registry of its kind in that simulation, and the entity
\* behind it is held by that entry alone, of all registries of all live
\* contexts; the handle's bit pattern can be a key of other registries too.
C6_HandleDenotesOneEntry ==
    \A s \in live, k \in Kinds :
        \A h \in IssuedOf(s, k) :
            /\ <<s, k, HandleToId(h.id)>> \in Entries
            /\ {x \in Entries : ctx[x[1]][RegOf[x[2]]][x[3]].n = h.ent.n}
                  = {<<s, k, HandleToId(h.id)>>}

\* C6 witness: two registries hold entries under the same ID
C6_Witness ==
    \E x \in Entries, y \in Entries : x # y /\ x[3] = y[3]

\* C6 as stated: the value of every handle a live simulation has returned is
\* a key of exactly one registry of exactly one live context.
C6_HandleValueInOneRegistry ==
    \A s \in live, k \in Kinds :
        \A h \in IssuedOf(s, k) :
            Cardinality({x \in Entries : x[3] = HandleToId(h.id)}) = 1

\* the stop requests of the current loop that name a time not before the
\* time they were made at
StopTimes == {r.T : r \in {q \in stopReqs : q.T >= q.at}}

\* the earliest of them
FirstStop == CHOOSE T \in StopTimes : \A U \in StopTimes : T <= U

\* the step invokes a scheduled callback
Invokes == \E e \in DOMAIN fired : fired'[e] > fired[e]

\* a sim_run frame is popped by a normal return
RunReturns == stack # <<>> /\ Top.kind = "run" /\ stack' = Pop(stack) /\ ret'.status = NS3_OK

\* C7: when sim_stop(S, T) was called, before the run or from a callback,
\* no callback is dispatched at a time past T, and when sim_run returns the
\* clock reads T.
C7_StopAtAbsoluteTime ==
    [][/\ Invokes => \A T \in StopTimes : now' <= T
       /\ (RunReturns /\ ~Top.stale /\ StopTimes # {}) => now = FirstStop]_vars

\* C8: once a callback has called sim_stop(S, T) with T earlier than the
\* current time, no further callback is dispatched in that run.
C8_EarlierStopEndsLoop ==
    [][Invokes => ~ \E r \in stopReqs : r.inCb /\ r.T < r.at]_vars

\* C9: the callback of a sim_schedule(S, ...) call is invoked at most once,
\* and when a sim_run(S) that followed it has returned NS3_OK with no stop
\* having taken effect it has been invoked exactly once.
C9_ScheduledCallbackFiresOnce ==
    /\ \A e \in DOMAIN sched : fired[e] <= 1
    /\ (/\ stack = <<>>
        /\ ret.op = "sim_run" /\ ret.status = NS3_OK /\ ret.cause = "drained"
        /\ ret.sim \in live)
          => \A e \in DOMAIN sched : sched[e].sim = ret.sim => fired[e] = 1

\* C10: sim_destroy(S) called from a callback of sim_run(S) stops the event
\* loop: once that callback has returned, the loop ends and sim_run returns
\* without the process reading or writing what the destroy freed.
C10_DestroyInRunStopsLoop ==
    [][(stack # <<>> /\ Top.kind = "run" /\ Top.stale) => fault' = "none"]_vars


\* C11: successive ipv4_assign calls on one simulation with the same network
\* base and mask give pairwise distinct addresses: the cursor goes on from
\* where the call before left it, so no call hands out an address a second
\* time and none is ended by the address generator's collision check (in this
\* specification nothing but that check makes fault differ from "none").
C11_SuccessiveAssignsDistinct ==
    /\ fault = "none"
    /\ \A i, j \in DOMAIN assigned :
          (i < j /\ assigned[i].sim = assigned[j].sim)
              => assigned[i].addr # assigned[j].addr

\* C12: when the simulator throws inside an entry point other than sim_create
\* and sim_destroy, the entry point returns NS3_ERR, the last-error of its
\* simulation is "<operation> failed: <what>", and nothing is thrown on to
\* the caller, whatever the type of the exception.
C12_ExceptionBecomesStatus ==
    (ret.cause = "exception" /\ ret.op \notin {"sim_create", "sim_destroy"})
        => /\ ret.status = NS3_ERR
           /\ GetError(ctx[ret.sim]) = ret.op \o " failed: " \o What

\* the registry each entry point looks its handle arguments up in
ResolvedKind ==
    [internet_install |-> "node", p2p_install |-> "node", csma_install |-> "node",
     wifi_install_sta_ap |-> "node", mobility_set_constant_position |-> "node",
     app_udpecho_server |-> "node", app_udpecho_client |-> "node",
     ipv4_assign |-> "device", trace_subscribe_packet_events |-> "device",
     pcap_enable |-> "device", app_start |-> "app", app_stop |-> "app",
     flowmon_collect |-> "flowmon"]

\* C13: a call on simulation S that looks up a (non-null) handle whose ID the
\* registry of the required kind does not hold returns NS3_ERR, and the
\* last-error of S is then exactly the message of that kind.
C13_MissWritesKindMessage ==
    ret.cause = "miss"
        => /\ ret.status = NS3_ERR
           /\ ret.op \in DOMAIN ResolvedKind
           /\ GetError(ctx[ret.sim]) = InvalidMsg[ResolvedKind[ret.op]]

\* a lookup missed in a registry that holds another ID
C13_Witness ==
    /\ ret.cause = "miss"
    /\ ret.op = "internet_install"
    /\ ctx[ret.sim].nodes # EmptyMap
    /\ GetError(ctx[ret.sim]) = "Invalid node handle"

\* C14: a call that returns NS3_OK leaves the last-error of its simulation
\* (and of every other one) as it was; the slot of a simulation changes only
\* in a call on that simulation that fails and writes a message, so it holds
\* what the latest such call wrote; and the slot of a new context is empty.
C14_OkKeepsSlot ==
    [][calls' < calls =>
          /\ \A s \in live \cap live' :
                \/ GetError(ctx'[s]) = GetError(ctx[s])
                \/ /\ ret'.sim = s
                   /\ ret'.status = NS3_ERR
                   /\ SlotAfterFailure(ret', GetError(ctx[s]), GetError(ctx'[s]))
          /\ \A s \in live' \ live : GetError(ctx'[s]) = ""]_vars

\* a call on a simulation has returned NS3_OK and the slot still holds the
\* message of an earlier failure
C14_Witness ==
    /\ ret.status = NS3_OK
    /\ ret.op \notin {"ns3_last_error", "sim_create"}
    /\ ret.sim \in live
    /\ GetError(ctx[ret.sim]) # ""

\* C15: config_set with the string tag and a null string payload returns
\* NS3_ERR, makes no Config::Set call, and leaves a diagnostic in the
\* last-error of its simulation.  "Or equivalent" is read as weakly as it
\* can be: any non-empty message in the slot after the call will do.
C15_NullStringWritesDiagnostic ==
    [][(calls' < calls /\ ret'.op = "config_set" /\ ret'.cause = "null_payload") =>
          /\ ret'.status = NS3_ERR
          /\ config' = config
          /\ GetError(ctx'[ret'.sim]) # ""]_vars

\* the wrapper the header's tag calls for
WrapperFor(kind) ==
    CASE kind = NS3_ATTR_BOOL -> "BooleanValue"
      [] kind = NS3_ATTR_UINT -> "UintegerValue"
      [] kind = NS3_ATTR_DOUBLE -> "DoubleValue"
      [] kind = NS3_ATTR_STRING -> "StringValue"

\* C16: config_set on a simulation with non-null path and name: when the tag
\* is none of BOOL, UINT, DOUBLE, STRING it returns NS3_ERR, makes no
\* Config::Set call and leaves "Invalid attribute kind" in the last-error;
\* when the tag is one of them, the payload is not a null string and the
\* setter returns, it returns NS3_OK having made exactly one Config::Set
\* call, on path + "/" + name, with the wrapper of the tag.
C16_ConfigSetDecodesTag ==
    [][ret'.op = "config_set" =>
       \A s \in live, kind \in AttrKinds, null \in BOOLEAN, exc \in Throws :
          config_set(s, "/NodeList", "Attr", FALSE, [kind |-> kind, null |-> null], exc) =>
              IF kind \notin {NS3_ATTR_BOOL, NS3_ATTR_UINT, NS3_ATTR_DOUBLE, NS3_ATTR_STRING}
              THEN /\ ret'.status = NS3_ERR
                   /\ config' = config
                   /\ GetError(ctx'[s]) = "Invalid attribute kind"
              ELSE (exc = "none" /\ ~(kind = NS3_ATTR_STRING /\ null)) =>
                   /\ ret'.status = NS3_OK
                   /\ config' = Append(config, [path |-> "/NodeList/Attr",
                                                wrapper |-> WrapperFor(kind)])]_vars

\* an accepted config_set was followed by one with a tag outside the
\* enumeration: one Config::Set call has been made, not two
C16_Witness ==
    /\ ret.op = "config_set" /\ ret.cause = "kind"
    /\ Len(config) = 1
    /\ config[1] = [path |-> "/NodeList/Attr", wrapper |-> "DoubleValue"]
    /\ GetError(ctx[ret.sim]) = "Invalid attribute kind"

\* the sum of one field over the flows of a map
RECURSIVE SumOf(_, _)
SumOf(stats, field) ==
    IF stats = <<>> THEN 0 ELSE Head(stats)[field] + SumOf(Tail(stats), field)

\* C17: after a flowmon_collect that returned NS3_OK, the structure written
\* out holds, over the flows the monitor reported: in delaySumSec the sum of
\* the flows' delay sums and nothing else, in jitterSumSec the sum of their
\* jitter sums and nothing else, in the packet and byte fields the sums of
\* the flows' counters, and in flowCount the number of flows.
C17_StatsAreFieldwiseSums ==
    (ret.op = "flowmon_collect" /\ ret.status = NS3_OK) =>
        LET stats == collected.stats
            out == collected.out
        IN  /\ out.delaySumSec = SumOf(stats, "delaySum")
            /\ out.jitterSumSec = SumOf(stats, "jitterSum")
            /\ out.txPackets = SumOf(stats, "txPackets")
            /\ out.rxPackets = SumOf(stats, "rxPackets")
            /\ out.txBytes = SumOf(stats, "txBytes")
            /\ out.rxBytes = SumOf(stats, "rxBytes")
            /\ out.flowCount = Len(stats)

\* everything but the record of the last return and the caller's call budget
programVars ==
    <<live, ctx, now, events, stopped, stack, fault, issued, sched, fired, stopReqs,
      destroyedInRun, traces, delivered, packets, config, allocated, assigned,
      collected>>

\* C18: sim_destroy on the null pointer returns NS3_OK and changes nothing;
\* sim_destroy on a simulation frees its context, whether Simulator::Destroy
\* returns or throws, and returns a status: nothing that is thrown, of
\* whatever type, reaches the caller.
C18_DestroyAlwaysFrees ==
    [][ret'.op = "sim_destroy" =>
       \A s \in live \cup {NullSim}, exc \in Throws :
          sim_destroy(s, exc) =>
              IF s = NullSim
              THEN /\ ret'.status = NS3_OK
                   /\ UNCHANGED programVars
              ELSE /\ s \notin live'
                   /\ ret'.status = (IF exc = "none" THEN NS3_OK ELSE NS3_ERR)]_vars

\* a sim_destroy whose teardown threw has returned, and the context is gone
C18_Witness ==
    /\ ret.op = "sim_destroy"
    /\ ret.cause = "exception"
    /\ ret.status = NS3_ERR
    /\ ret.sim # NullSim
    /\ ret.sim \notin live

\* C19: sim_create with a non-null output slot, when the allocation succeeds,
\* returns NS3_OK and writes to the slot a context that was not allocated
\* before, with four empty registries, four ID counters at 1, an empty
\* last-error and the running flag false; with a null slot, or when the
\* allocation fails (std::bad_alloc, a std::exception), it returns NS3_ERR,
\* allocates nothing and writes no context to the slot.
C19_CreateYieldsFreshContext ==
    [][ret'.op = "sim_create" =>
       \A s \in Sims, outNull \in BOOLEAN, exc \in {"none", "std"} :
          sim_create(s, outNull, exc) =>
              IF outNull \/ exc = "std"
              THEN /\ ret'.status = NS3_ERR
                   /\ ret'.sim = NullSim
                   /\ live' = live
              ELSE /\ ret'.status = NS3_OK
                   /\ ret'.sim = s
                   /\ s \notin live /\ live' = live \cup {s}
                   /\ \A k \in Kinds : /\ ctx'[s][RegOf[k]] = EmptyMap
                                       /\ ctx'[s][CtrOf[k]] = 1
                   /\ GetError(ctx'[s]) = ""
                   /\ ctx'[s].isRunning = FALSE]_vars

\* a second context has been created while the first one, which has issued
\* an ID, is still allocated
C19_Witness ==
    /\ ret.op = "sim_create" /\ ret.status = NS3_OK
    /\ ret.sim \in live
    /\ \E t \in live \ {ret.sim} : ctx[t].nextNodeId > 1
    /\ ctx[ret.sim].nextNodeId = 1

\* C20: ns3_last_error(sim, buf, len) returns NS3_ERR and writes nothing when
\* buf is null or len is 0; otherwise it returns NS3_OK and the buffer holds
\* the first min(|msg|, len - 1) bytes of msg (and then the terminator),
\* where msg is "No simulation context" for the null simulation and else
\* what the error slot holds, which may be empty; the slot is not changed.
C20_LastErrorCopiesPrefix ==
    [][ret'.op = "ns3_last_error" =>
       \A s \in live \cup {NullSim}, bufNull \in BOOLEAN, len \in LenArgs :
          ns3_last_error(s, bufNull, len) =>
              LET msg == IF s = NullSim THEN "No simulation context"
                         ELSE GetError(ctx[s])
                  n == IF Len(msg) <= len - 1 THEN Len(msg) ELSE len - 1
              IN  /\ ctx' = ctx
                  /\ IF bufNull \/ len = 0
                     THEN ret'.status = NS3_ERR /\ ret'.out = ""
                     ELSE /\ ret'.status = NS3_OK
                          /\ Len(ret'.out) = n
                          /\ IsPrefix(ret'.out, msg)]_vars

\* a message longer than the buffer has been cut to the buffer's size
C20_Witness ==
    /\ ret.op = "ns3_last_error" /\ ret.status = NS3_OK
    /\ ret.sim \in live
    /\ ret.out # ""
    /\ Len(ret.out) < Len(GetError(ctx[ret.sim]))
    /\ IsPrefix(ret.out, GetError(ctx[ret.sim]))

\* the sinks a step has connected
NewSinks == SubSeq(traces', Len(traces) + 1, Len(traces'))

\* C21: a trace_subscribe_packet_events that returns NS3_OK for a registered
\* device has connected a sink to the TX source of that device exactly when
\* onTx was not null and one to its RX source exactly when onRx was not null,
\* and nothing else; with both null it returns NS3_OK for every registered
\* device and connects nothing, so that no callback is ever invoked for it
\* (callbacks are invoked through connected sinks only).  Stated for the
\* calls that return; C27 is about the ones that do not.
C21_SubscribesRequestedSidesOnly ==
    [][(ret'.op = "trace_subscribe_packet_events" /\ fault' = fault) =>
       \A s \in live, h \in 1 .. MaxId, onTx \in BOOLEAN, onRx \in BOOLEAN, user \in Users :
          trace_subscribe_packet_events(s, h, onTx, onRx, user, "none") =>
              /\ SubSeq(traces', 1, Len(traces)) = traces
              /\ ret'.status = NS3_OK =>
                    /\ Len(NewSinks) = (IF onTx THEN 1 ELSE 0) + (IF onRx THEN 1 ELSE 0)
                    /\ onTx <=> \E i \in DOMAIN NewSinks : NewSinks[i].side = "tx"
                    /\ onRx <=> \E i \in DOMAIN NewSinks : NewSinks[i].side = "rx"
                    /\ \A i \in DOMAIN NewSinks :
                          NewSinks[i].dev = Lookup(ctx[s], "device", h).n
              /\ (~onTx /\ ~onRx /\ Lookup(ctx[s], "device", h) # NullEnt) =>
                    /\ ret'.status = NS3_OK
                    /\ traces' = traces]_vars

\* a subscription with both callbacks null has returned NS3_OK on a device
\* that is not a point-to-point device; nothing is connected
C21_Witness ==
    /\ ret.op = "trace_subscribe_packet_events" /\ ret.status = NS3_OK
    /\ ret.sim \in live
    /\ \E id \in DOMAIN ctx[ret.sim].devices :
          ctx[ret.sim].devices[id].type = "CsmaNetDevice"
    /\ traces = <<>>

\* the callbacks a step has invoked
NewCalls == SubSeq(delivered', Len(delivered) + 1, Len(delivered'))

\* C22: with the subscriptions made before sim_run, a TX (RX) packet event on
\* device D during the run invokes, for each sink connected to the TX (RX)
\* source of D, that subscription's onTx (onRx) exactly once, with the user
\* pointer given at subscription, with the ID under which the registry of the
\* subscribing simulation holds D, and with the simulator's clock at the
\* moment of invocation; it invokes nothing else.
C22_PacketEventInvokesOnce ==
    [][packets' # packets =>
       \A d \in DeviceEnts, side \in {"tx", "rx"}, t \in 0 .. MaxTime :
          PacketEvent(d, side, t) =>
              /\ SubSeq(delivered', 1, Len(delivered)) = delivered
              /\ \A i \in DOMAIN traces :
                    (traces[i].dev = d /\ traces[i].side = side) =>
                        /\ Cardinality({j \in DOMAIN NewCalls : NewCalls[j].sink = i}) = 1
                        /\ \A j \in DOMAIN NewCalls :
                              NewCalls[j].sink = i =>
                                  /\ NewCalls[j].cb = (IF side = "tx" THEN "onTx" ELSE "onRx")
                                  /\ NewCalls[j].user = traces[i].user
                                  /\ NewCalls[j].time = now'
                                  /\ traces[i].sim \in live
                                  /\ NewCalls[j].deviceId \in DOMAIN ctx[traces[i].sim].devices
                                  /\ ctx[traces[i].sim].devices[NewCalls[j].deviceId].n = d
              /\ \A j \in DOMAIN NewCalls :
                    /\ NewCalls[j].sink \in DOMAIN traces
                    /\ traces[NewCalls[j].sink].dev = d
                    /\ traces[NewCalls[j].sink].side = side]_vars

\* two packets have passed a device subscribed for both directions, one
\* sent and then, after the clock had moved on, one received: each callback
\* has been invoked once
C22_Witness ==
    /\ packets = 2
    /\ Len(delivered) = 2
    /\ delivered[1].cb = "onTx" /\ delivered[2].cb = "onRx"
    /\ delivered[1].user = delivered[2].user
    /\ delivered[1].time < delivered[2].time

\* C23: while one thread stores a message in the error slot of a context
\* (SetError) and another reads the slot through ns3_last_error, the two
\* critical sections never overlap, the copy the reader holds when it
\* releases the mutex is the slot as it stands, and every message that
\* reaches the reader's buffer is a whole one: the initial message or one
\* that SetError was called with, never a mixture of two.
C23_SlotReadIsWholeMessage ==
    /\ ~(pc["writer"] \in Critical /\ pc["reader"] \in Critical)
    /\ \A s \in live : pc["reader"] = "unlock" => tmp["reader"] = GetError(ctx[s])
    /\ \A s \in live : pc["writer"] \notin {"store1", "store2"} =>
          GetError(ctx[s]) \in {NewSim.lastError} \cup Range(written)
    /\ \A i \in DOMAIN copied : copied[i] \in {NewSim.lastError} \cup Range(written)

\* the reader is copying the slot while the writer waits for the mutex with
\* the next message, after an earlier read returned the first message
C23_Witness ==
    /\ pc["writer"] = "lock"
    /\ pc["reader"] = "copy2"
    /\ mutex = "reader"
    /\ Len(written) = 2
    /\ written[1] # written[2]
    /\ copied = <<written[1]>>

\* C24: sim_destroy(S1) with a second simulation S2 alive leaves S2 whole:
\* S2 stays allocated, its fields and the handles it has issued are as they
\* were, and every callback scheduled through sim_schedule(S2, ...) that was
\* waiting in the simulator's queue is still waiting there, so that a later
\* sim_run(S2) dispatches it.
C24_DestroyLeavesOtherSimulation ==
    [][ret'.op = "sim_destroy" =>
          \A s1 \in live, exc \in Throws : sim_destroy(s1, exc) =>
             \A s2 \in live \ {s1} :
                /\ s2 \in live'
                /\ ctx'[s2] = ctx[s2]
                /\ issued'[s2] = issued[s2]
                /\ \A i \in DOMAIN events :
                      (events[i].kind = "cb" /\ sched[events[i].e].sim = s2)
                          => \E j \in DOMAIN events' : events'[j] = events[i]]_vars

\* C25: no entry point uses a context that sim_destroy has deleted further
\* down its own call chain: a sim_run(S) whose callback destroyed S returns
\* without reading or writing the isRunning flag or the error slot of the
\* deleted context.
C25_NoUseAfterDestroy == fault # "uaf"

\* the registries and the counters of a context
Registries(c) == [k \in Kinds |-> c[RegOf[k]]]
Counters(c) == [k \in Kinds |-> c[CtrOf[k]]]

FacadeOps == {"nodes_create", "internet_install", "p2p_install", "csma_install",
              "wifi_install_sta_ap", "ipv4_assign", "app_udpecho_server",
              "app_udpecho_client", "flowmon_install_all"}

\* C26: a topology or application call that returns NS3_ERR (a null or zero
\* argument, a handle that does not resolve at whatever index, or an
\* exception from the simulator) leaves the four registries and the four
\* counters of every simulation as they were and hands out no handle.
C26_FailedCallRegistersNothing ==
    [][(calls' < calls /\ ret'.op \in FacadeOps /\ ret'.status = NS3_ERR)
          => /\ issued' = issued
             /\ \A s \in live : /\ Registries(ctx'[s]) = Registries(ctx[s])
                                /\ Counters(ctx'[s]) = Counters(ctx[s])]_vars

\* wifi_install_sta_ap has failed at its second handle (the access point) or
\* in the simulator, on a simulation that has nodes registered
C26_Witness ==
    /\ ret.op = "wifi_install_sta_ap"
    /\ ret.status = NS3_ERR
    /\ ret.cause \in {"miss", "exception"}
    /\ ret.sim \in live
    /\ ctx[ret.sim].nextNodeId > 1
    /\ ctx[ret.sim].lastError \in {InvalidMsg.node, "wifi_install_sta_ap failed: " \o What}

\* C27: trace_subscribe_packet_events with at least one callback, on a device
\* the simulation has registered (point-to-point, csma or wifi), completes:
\* it returns NS3_OK or NS3_ERR and dereferences no null device object.
C27_SubscribeCompletes ==
    [][\A s \in live, h \in 1 .. MaxId, onTx \in BOOLEAN, onRx \in BOOLEAN, user \in Users :
          ( /\ onTx \/ onRx
            /\ Lookup(ctx[s], "device", h) # NullEnt
            /\ trace_subscribe_packet_events(s, h, onTx, onRx, user, "none") )
              => /\ fault' = fault
                 /\ ret'.op = "trace_subscribe_packet_events"
                 /\ ret'.status \in {NS3_OK, NS3_ERR}]_vars

\* C28: in a live simulation the keys of the registry of each kind are
\* exactly 1 .. next - 1, next being the ID counter of the kind; and from one
\* state of the simulation to the next every entry stays, with the entity it
\* had, and the counter goes up by the number of entries that were added.
C28_RegistryKeysFillCounter ==
    [][\A s \in live, k \in Kinds :
          LET reg == ctx[s][RegOf[k]]
              next == ctx[s][CtrOf[k]]
              regN == ctx'[s][RegOf[k]]
              nextN == ctx'[s][CtrOf[k]]
          IN  /\ DOMAIN reg = 1 .. next - 1
              /\ s \in live' =>
                    /\ DOMAIN regN = 1 .. nextN - 1
                    /\ \A id \in DOMAIN reg : id \in DOMAIN regN /\ regN[id] = reg[id]
                    /\ nextN - next = Cardinality(DOMAIN regN \ DOMAIN reg)]_vars

\* a simulation holds a node and the two devices of a point-to-point link,
\* and a call after that has left them in place
C28_Witness ==
    \E s \in live :
        /\ DOMAIN ctx[s].nodes = {1}
        /\ DOMAIN ctx[s].devices = {1, 2}
        /\ ctx[s].nextDeviceId = 3
        /\ ret.op # "p2p_install"

\* the arrays of handles that hold a null handle
WithNull == {arr \in HandleArrays : \E i \in DOMAIN arr : arr[i] = 0}

\* what a call that walks array arr of handles of kind k on context c, and
\* meets a null handle, leaves: NS3_ERR, and the error slot as it was when
\* every element before the first null one resolves (the message of the
\* miss, written for that earlier non-null handle, otherwise)
NullLeaves(s, k, arr) ==
    LET c == ctx[s]
        first == CHOOSE i \in DOMAIN arr : arr[i] = 0 /\ \A j \in 1 .. i - 1 : arr[j] # 0
        before == \A j \in 1 .. first - 1 : Lookup(c, k, arr[j]) # NullEnt
    IN  /\ ret'.status = NS3_ERR
        /\ ctx'[s].lastError = IF before THEN c.lastError ELSE InvalidMsg[k]

\* C29: a null (zero) handle, as a direct handle argument or as an element of
\* the input array of internet_install, csma_install, wifi_install_sta_ap or
\* ipv4_assign, makes the call return NS3_ERR, and no "Invalid ... handle"
\* message is written for it: the error slot is left as it was.
C29_NullHandleWritesNothing ==
    [][\A s \in live \cap {ret'.sim} :
        /\ ret'.op = "internet_install" =>
              \A arr \in WithNull : internet_install(s, arr, FALSE) => NullLeaves(s, "node", arr)
        /\ ret'.op = "csma_install" =>
              \A arr \in WithNull : csma_install(s, arr, FALSE) => NullLeaves(s, "node", arr)
        /\ ret'.op = "ipv4_assign" =>
              \A arr \in WithNull, base \in Bases :
                 ipv4_assign(s, arr, base, FALSE) => NullLeaves(s, "device", arr)
        /\ ret'.op = "wifi_install_sta_ap" =>
              /\ \A arr \in WithNull, ap \in Handles \ {0} :
                    wifi_install_sta_ap(s, arr, ap, FALSE) => NullLeaves(s, "node", arr)
              /\ \A arr \in HandleArrays :
                    wifi_install_sta_ap(s, arr, 0, FALSE)
                        => (ret'.status = NS3_ERR /\ ctx' = ctx)
        /\ ret'.op = "p2p_install" =>
              \A a \in Handles, b \in Handles :
                 ((a = 0 \/ b = 0) /\ p2p_install(s, a, b, FALSE))
                     => (ret'.status = NS3_ERR /\ ctx' = ctx)
        /\ ret'.op = "app_udpecho_server" =>
              (app_udpecho_server(s, 0, FALSE) => (ret'.status = NS3_ERR /\ ctx' = ctx))
        /\ ret'.op = "app_udpecho_client" =>
              (app_udpecho_client(s, 0, FALSE) => (ret'.status = NS3_ERR /\ ctx' = ctx))
        /\ ret'.op = "app_start" =>
              (app_start(s, 0) => (ret'.status = NS3_ERR /\ ctx' = ctx))
        /\ ret'.op = "flowmon_collect" =>
              (flowmon_collect(s, 0, FALSE) => (ret'.status = NS3_ERR /\ ctx' = ctx))]_vars

\* csma_install has returned NS3_ERR at a null element of its array while the
\* slot holds the message an earlier call left there
C29_Witness ==
    /\ ret.op = "csma_install"
    /\ ret.status = NS3_ERR
    /\ ret.cause = "null_handle"
    /\ ret.sim \in live
    /\ GetError(ctx[ret.sim]) = InvalidMsg.node

\* what the shim owns of a context: registries, counters, error slot, flag
Owned(c) == [regs |-> Registries(c), ctrs |-> Counters(c),
             lastError |-> c.lastError, isRunning |-> c.isRunning]

\* the step is (part of) an operation invoked on the context that is at s:
\* an entry point called with s has returned, sim_run(s) has entered the
\* loop, or the sim_run that was called on this context is returning
OperatesOn(s) ==
    \/ calls' < calls /\ Len(stack') = Len(stack) /\ ret'.sim = s
    \/ calls' < calls /\ Len(stack') > Len(stack) /\ stack'[Len(stack')] = RunFrame(s)
    \/ /\ Len(stack') < Len(stack)
       /\ LET fr == stack[Len(stack') + 1]
          IN  fr.kind = "run" /\ fr.sim = s /\ ~fr.dead

\* C30: an operation invoked on one simulation leaves what the shim owns of
\* every other live simulation as it was: the four registries, the four
\* counters, the error slot and the running flag of a context change only
\* in steps of operations invoked on that context.
C30_OtherSimulationsUntouched ==
    [][\A s2 \in live \cap live' :
          Owned(ctx'[s2]) # Owned(ctx[s2]) => OperatesOn(s2)]_vars

=============================================================================
